---- MODULE Spec2Model ----
(***************************************************************************)
(* The select prompt of packages/select/src/index.mts as a state machine.  *)
(* The prompt function is rendered once at construction (Construct) and    *)
(* its keypress handler is run once per key event (EnterKey, UpDownKey,    *)
(* NumberKey).  Indices are 0-based as in the source; TLA+ sequences are   *)
(* 1-based, so entry i of the source is choices[i + 1] here.               *)
(***************************************************************************)
EXTENDS Integers, Sequences, FiniteSets, TLC

VARIABLES
    choices,         \* config.choices, read-only for the prompt's lifetime
    pc,              \* "new" | "running" | "failed" (the initialiser threw) |
                     \* "hung" (a handler never returned)
    status,          \* useState('pending'): "pending" | "done"
    cursorPosition,  \* useState(() => startIndex); -1 while unset
    firstRender,     \* useRef(true).current
    resolved,        \* the values passed to done(), in call order
    last,            \* the last key event handled and the state it met
    frame            \* the last frame the prompt function returned

vars == <<choices, pc, status, cursorPosition, firstRender, resolved, last, frame>>

(***************************************************************************)
(* Bounds of the model.                                                    *)
(***************************************************************************)
MaxLen == 3
MaxDone == 2

(***************************************************************************)
(* JavaScript values of the optional fields: undefined, a boolean or a     *)
(* string, kept apart so that truthiness is computed and not assumed.      *)
(***************************************************************************)
Undefined == [t |-> "undefined", b |-> FALSE, s |-> ""]
Bool(x) == [t |-> "boolean", b |-> x, s |-> ""]
Str(x) == [t |-> "string", b |-> FALSE, s |-> x]

\* ToBoolean, as applied by `!choice.disabled` and `choice.name || ...`.
Truthy(v) ==
    \/ v.t = "boolean" /\ v.b
    \/ v.t = "string" /\ v.s # ""

\* type Choice = { value, name?, description?, disabled? }
Choice(value, name, disabled) ==
    [type |-> "choice", value |-> value, name |-> name, disabled |-> disabled,
     description |-> Undefined]

\* A Choice with its description field set.
Described(choice, text) == [choice EXCEPT !.description = Str(text)]

\* new Separator()
SeparatorEntry ==
    [type |-> "separator", value |-> "", name |-> Undefined, disabled |-> Undefined,
     description |-> Undefined]

\* What choices[i] yields for an index outside the array.
UndefinedEntry ==
    [type |-> "undefined", value |-> "", name |-> Undefined, disabled |-> Undefined,
     description |-> Undefined]

\* The entries the lists of the model are built from: a Separator and
\* Choices covering every shape of the disabled field.
Entries ==
    { SeparatorEntry,
      Choice("a", Undefined, Undefined),
      Choice("b", Str("Beta"), Bool(FALSE)),
      Described(Choice("c", Undefined, Str("")), "About c"),
      Choice("d", Str("Delta"), Bool(TRUE)),
      Choice("e", Undefined, Str("reason")) }

\* The entries of the longest lists: a Separator, a selectable Choice and a
\* disabled one.
PlainEntries ==
    { SeparatorEntry,
      Choice("a", Undefined, Undefined),
      Choice("d", Str("Delta"), Bool(TRUE)) }

\* Lists whose last two entries lie at indices 9 and 10, beyond the reach of
\* the digit keys, after nine entries that are not selectable.
LongLists ==
    { [i \in 1..9 |-> IF i % 2 = 0 THEN SeparatorEntry
                      ELSE Choice("d", Str("Delta"), Bool(TRUE))] \o tail :
        tail \in [1..2 -> PlainEntries] }

\* Every list of fewer than MaxLen entries, the lists of MaxLen and of
\* MaxLen + 1 plain ones, and the long lists.
ChoiceLists ==
    UNION { [1..n -> Entries] : n \in 0..(MaxLen - 1) }
        \cup [1..MaxLen -> PlainEntries]
        \cup [1..(MaxLen + 1) -> PlainEntries]
        \cup LongLists

\* choices[i] of the source, for any integer i.
At(chs, i) == IF i \in 0..(Len(chs) - 1) THEN chs[i + 1] ELSE UndefinedEntry

\* Separator.isSeparator(choice)
isSeparator(choice) == choice.type = "separator"

isSelectableChoice_ignoresDisabled(choice) ==
    /\ choice.type # "undefined"
    /\ ~isSeparator(choice)

isSelectableChoice(choice) ==
    /\ choice.type # "undefined"
    /\ ~isSeparator(choice)
    /\ ~Truthy(choice.disabled)

\* Array.prototype.findIndex(isSelectableChoice), scanning from index i.
RECURSIVE findIndexFrom(_, _)
findIndexFrom(chs, i) ==
    IF i >= Len(chs) THEN -1
    ELSE IF isSelectableChoice(At(chs, i)) THEN i
    ELSE findIndexFrom(chs, i + 1)

findIndex_last(chs) ==
    IF \E i \in 0..(Len(chs) - 1) : isSelectableChoice(At(chs, i))
    THEN CHOOSE i \in 0..(Len(chs) - 1) :
            /\ isSelectableChoice(At(chs, i))
            /\ \A j \in (i + 1)..(Len(chs) - 1) : ~isSelectableChoice(At(chs, j))
    ELSE -1

findIndex(chs) == findIndexFrom(chs, 0)

\* The % operator of JavaScript: the result takes the sign of the dividend.
JSMod(a, n) == IF a >= 0 THEN a % n ELSE -((-a) % n)

(***************************************************************************)
(* The directional search of the keypress handler.                         *)
(***************************************************************************)
\* const offset = isUpKey(key) ? -1 : 1
offsetOf_alwaysDown(key) == 1

offsetOf(key) == IF key = "up" THEN -1 ELSE 1

\* (newCursorPosition + offset + choices.length) % choices.length
advance_noWrap(pos, offset, len) == pos + offset

advance(pos, offset, len) == JSMod(pos + offset + len, len)

\* Iterations after which the model gives a search up as never ending; a
\* search that ends does so within Len(choices) iterations.
LoopFuel == 2 * MaxLen + 16

\* The while loop: each iteration advances the candidate and reads the entry
\* there; the loop ends when that entry is selectable.  n counts the
\* iterations already made.
RECURSIVE searchLoop(_, _, _, _)
searchLoop(chs, pos, offset, n) ==
    LET newCursorPosition == advance(pos, offset, Len(chs))
        selectedOption == At(chs, newCursorPosition)
    IN  IF isSelectableChoice(selectedOption)
        THEN [position |-> newCursorPosition, iterations |-> n + 1, terminated |-> TRUE]
        ELSE IF n + 1 >= LoopFuel
        THEN [position |-> newCursorPosition, iterations |-> n + 1, terminated |-> FALSE]
        ELSE searchLoop(chs, newCursorPosition, offset, n + 1)

search_noSkip(chs, pos, offset) ==
    [position |-> advance(pos, offset, Len(chs)), iterations |-> 1, terminated |-> TRUE]

\* let newCursorPosition = cursorPosition; while (...) {...}
search(chs, pos, offset) == searchLoop(chs, pos, offset, 0)

(***************************************************************************)
(* The numeric jump of the keypress handler: the cursor it leaves.         *)
(***************************************************************************)
jump_offByOne(chs, cur, n) ==
    LET newCursorPosition == n
    IN  IF ~isSelectableChoice(At(chs, newCursorPosition)) THEN cur
        ELSE newCursorPosition

jump_noAbort(chs, cur, n) == n - 1

jump(chs, cur, n) ==
    LET newCursorPosition == n - 1
    IN  IF ~isSelectableChoice(At(chs, newCursorPosition)) THEN cur
        ELSE newCursorPosition

(***************************************************************************)
(* The value the enter branch hands to done().                             *)
(***************************************************************************)
confirmedValue_label(chs, cur) ==
    LET choice == At(chs, cur)
    IN  IF Truthy(choice.name) THEN choice.name.s ELSE choice.value

\* const choice = choices[cursorPosition] as Choice; done(choice.value)
confirmedValue(chs, cur) == At(chs, cur).value

(***************************************************************************)
(* The frame the prompt function returns: the pieces of its template       *)
(* string, in order.  A piece keeps its role, the chalk style applied to   *)
(* it, its text and, for a disabled line, the disabled label after it.     *)
(***************************************************************************)
Tok(kind, style, text, note) ==
    [kind |-> kind, style |-> style, text |-> text, note |-> note]

Newline == Tok("newline", "plain", "", "")

\* choice.name || choice.value
labelOf(choice) == IF Truthy(choice.name) THEN choice.name.s ELSE choice.value

\* let message = chalk.bold(config.message);
\* if (firstRender.current) { message += chalk.dim(' (Use arrow keys)'); ... }
message_alwaysHint(first) ==
    << Tok("message", "bold", "message", ""),
       Tok("hint", "dim", " (Use arrow keys)", "") >>

message(first) ==
    << Tok("message", "bold", "message", "") >>
        \o (IF first THEN << Tok("hint", "dim", " (Use arrow keys)", "") >> ELSE << >>)

\* The callback of choices.map: the line of one entry.
choiceLine_offByOne(choice, index, cur) ==
    IF isSeparator(choice) THEN Tok("separator", "plain", "--------", "")
    ELSE IF Truthy(choice.disabled)
         THEN Tok("disabled", "dim", labelOf(choice),
                  IF choice.disabled.t = "string" THEN choice.disabled.s
                  ELSE "(disabled)")
    ELSE IF index = cur + 1 THEN Tok("pointer", "cyan", labelOf(choice), "")
    ELSE Tok("plain", "plain", labelOf(choice), "")

choiceLine(choice, index, cur) ==
    IF isSeparator(choice) THEN Tok("separator", "plain", "--------", "")
    ELSE IF Truthy(choice.disabled)
         THEN Tok("disabled", "dim", labelOf(choice),
                  IF choice.disabled.t = "string" THEN choice.disabled.s
                  ELSE "(disabled)")
    ELSE IF index = cur THEN Tok("pointer", "cyan", labelOf(choice), "")
    ELSE Tok("plain", "plain", labelOf(choice), "")

\* choices.map(...): the lines of the list body, before .join('\n').
allChoices(chs, cur) == [i \in 1..Len(chs) |-> choiceLine(chs[i], i - 1, cur)]

\* paginator.paginate(allChoices, cursorPosition, config.pageSize): the
\* visible slice.  The configurations here give a page no shorter than the
\* list, so the slice is the whole body.
paginate(lines, cur) == lines

\* .join('\n')
RECURSIVE joinLines(_)
joinLines(lines) ==
    IF Len(lines) = 0 THEN << >>
    ELSE IF Len(lines) = 1 THEN << lines[1] >>
    ELSE << lines[1], Newline >> \o joinLines(Tail(lines))

\* choice.description ? `\n${choice.description}` : ``
choiceDescription(choice) ==
    IF Truthy(choice.description)
    THEN << Newline, Tok("description", "plain", choice.description.s, "") >>
    ELSE << >>

\* `${prefix} ${message} ${chalk.cyan(choice.name || choice.value)}`
doneFrame_hidesCursor(chs, cur, first) ==
    << Tok("prefix", "plain", "?", "") >> \o message(first)
        \o << Tok("answer", "cyan", labelOf(At(chs, cur)), ""),
              Tok("cursorHide", "plain", "", "") >>

doneFrame(chs, cur, first) ==
    << Tok("prefix", "plain", "?", "") >> \o message(first)
        \o << Tok("answer", "cyan", labelOf(At(chs, cur)), "") >>

\* `${prefix} ${message}\n${windowedChoices}${choiceDescription}${ansiEscapes.cursorHide}`
pendingFrame(chs, cur, first) ==
    << Tok("prefix", "plain", "?", "") >> \o message(first)
        \o << Newline >>
        \o joinLines(paginate(allChoices(chs, cur), cur))
        \o choiceDescription(At(chs, cur))
        \o << Tok("cursorHide", "plain", "", "") >>

\* The text the prompt function returns for a state.
render(chs, st, cur, first) ==
    IF st = "done" THEN doneFrame(chs, cur, first)
    ELSE pendingFrame(chs, cur, first)

NoFrame == [status |-> "none", ordinal |-> "none", tokens |-> << >>]

\* The frame of a run of the prompt function on status st and cursor cur:
\* its text, the status it was rendered with, and whether it is the first
\* frame of the prompt or a later one.
Rendered(st, cur) ==
    [status |-> st,
     ordinal |-> IF frame = NoFrame THEN "first" ELSE "later",
     tokens |-> render(choices, st, cur, firstRender)]

(***************************************************************************)
(* The key events.  The digit keys carry their number.                     *)
(***************************************************************************)
Digits == 0..9

NoKey == [key |-> "none", n |-> 0, status |-> "none", cursorPosition |-> -1,
          iterations |-> 0]

Handled(key, n, iterations) ==
    [key |-> key, n |-> n, status |-> status, cursorPosition |-> cursorPosition,
     iterations |-> iterations]

\* The host delivers key events to the handler of a constructed prompt, in
\* either status, one at a time, each after the previous render is complete.
Subscribed == pc = "running"

(***************************************************************************)
(* The state machine.                                                      *)
(***************************************************************************)
Init ==
    /\ choices \in ChoiceLists
    /\ pc = "new"
    /\ status = "none"
    /\ cursorPosition = -1
    /\ firstRender = TRUE
    /\ resolved = << >>
    /\ last = NoKey
    /\ frame = NoFrame

\* The first call of the prompt function: the hooks are initialised and,
\* unless the cursor initialiser throws, the first frame is rendered.
Construct ==
    /\ pc = "new"
    /\ status' = "pending"
    /\ LET startIndex == findIndex(choices)
       IN  IF startIndex < 0
           THEN /\ pc' = "failed"
                /\ UNCHANGED <<cursorPosition, firstRender, frame>>
           ELSE /\ pc' = "running"
                /\ cursorPosition' = startIndex
                /\ frame' = Rendered("pending", startIndex)
                /\ firstRender' = FALSE
    /\ UNCHANGED <<choices, resolved, last>>

\* A handler that calls a state setter makes the prompt function run again:
\* the frame of the new state replaces the last one.
EnterKey_toggles ==
    /\ Subscribed
    /\ Len(resolved) < MaxDone
    /\ status' = IF status = "done" THEN "pending" ELSE "done"
    /\ resolved' = Append(resolved, confirmedValue(choices, cursorPosition))
    /\ last' = Handled("enter", 0, 0)
    /\ frame' = Rendered(status', cursorPosition)
    /\ firstRender' = FALSE
    /\ UNCHANGED <<choices, pc, cursorPosition>>

\* if (isEnterKey(key)) { setStatus('done'); done(choice.value); }
EnterKey ==
    /\ Subscribed
    /\ Len(resolved) < MaxDone
    /\ status' = "done"
    /\ resolved' = Append(resolved, confirmedValue(choices, cursorPosition))
    /\ last' = Handled("enter", 0, 0)
    /\ frame' = Rendered("done", cursorPosition)
    /\ firstRender' = FALSE
    /\ UNCHANGED <<choices, pc, cursorPosition>>

\* else if (isUpKey(key) || isDownKey(key)) { ...; setCursorPos(newCursorPosition); }
UpDownKey(key) ==
    /\ Subscribed
    /\ LET found == search(choices, cursorPosition, offsetOf(key))
       IN  /\ last' = Handled(key, 0, found.iterations)
           /\ IF found.terminated
              THEN /\ cursorPosition' = found.position
                   /\ pc' = pc
                   /\ frame' = Rendered(status, found.position)
                   /\ firstRender' = FALSE
              ELSE /\ cursorPosition' = cursorPosition
                   /\ pc' = "hung"
                   /\ UNCHANGED <<firstRender, frame>>
    /\ UNCHANGED <<choices, status, resolved>>

\* else if (isNumberKey(key)) { ...; setCursorPos(newCursorPosition); }
NumberKey(n) ==
    /\ Subscribed
    /\ cursorPosition' = jump(choices, cursorPosition, n)
    /\ last' = Handled("number", n, 0)
    /\ IF isSelectableChoice(At(choices, n - 1))
       THEN /\ frame' = Rendered(status, cursorPosition')
            /\ firstRender' = FALSE
       ELSE UNCHANGED <<firstRender, frame>>
    /\ UNCHANGED <<choices, pc, status, resolved>>

Next ==
    \/ Construct
    \/ EnterKey
    \/ \E key \in {"up", "down"} : UpDownKey(key)
    \/ \E n \in Digits : NumberKey(n)

Spec == Init /\ [][Next]_vars

(***************************************************************************)
(* Vocabulary of the properties, stated on the fields of the entries and   *)
(* not through the operators of the model above.                           *)
(***************************************************************************)
Falsy == { Undefined, Bool(FALSE), Str("") }

\* Entry i (0-based) exists, is a Choice, and its disabled field is falsy.
EnabledChoiceAt(i) ==
    /\ i \in 0..(Len(choices) - 1)
    /\ choices[i + 1].type = "choice"
    /\ choices[i + 1].disabled \in Falsy

HasSelectable == \E i \in 0..(Len(choices) - 1) : EnabledChoiceAt(i)

\* The prompt was constructed and is still waiting for its confirmation.
Pending == pc = "running" /\ status = "pending"

\* The index k steps of d away from c, wrapping at both ends of the list.
Wrapped(c, d, k) == (c + k * d) % Len(choices)

\* The first selectable index met when leaving c in direction d.
FirstSelectableFrom(c, d, i) ==
    \E k \in 1..Len(choices) :
        /\ i = Wrapped(c, d, k)
        /\ EnabledChoiceAt(i)
        /\ \A j \in 1..(k - 1) : ~EnabledChoiceAt(Wrapped(c, d, j))

\* C1: whenever a constructed prompt is pending, cursorPosition is an index
\* inside choices whose entry is a Choice with a falsy disabled field.
C1_PendingCursorOnEnabledChoice ==
    Pending => EnabledChoiceAt(cursorPosition)

\* A pending prompt whose last step skipped at least one entry.
C1_Witness ==
    /\ Pending
    /\ last.key \in {"up", "down"}
    /\ last.iterations > 1
    /\ \E i \in 0..(Len(choices) - 1) : ~EnabledChoiceAt(i)

\* C2: a Confirm handled while pending resolves the prompt with exactly the
\* value field of the entry at the cursor held at that moment.
C2_ConfirmResolvesWithValue ==
    (last.key = "enter" /\ last.status = "pending") =>
        /\ last.cursorPosition \in 0..(Len(choices) - 1)
        /\ resolved = << choices[last.cursorPosition + 1].value >>
        /\ status = "done"

\* A confirmation, after navigation, of a Choice whose name differs from its
\* value.
C2_Witness ==
    /\ last.key = "enter"
    /\ last.status = "pending"
    /\ resolved = << "b" >>
    /\ choices[last.cursorPosition + 1].name = Str("Beta")
    /\ \E i \in 0..(last.cursorPosition - 1) : EnabledChoiceAt(i)

\* C3: when no entry of choices is selectable, construction fails: no frame
\* is rendered, no event is handled, nothing is resolved, and the prompt
\* never runs.  (The status hook then holds the initial value line 44 gave
\* it, but no prompt exists that is in that state.)
C3_NoSelectableFailsConstruction ==
    (~HasSelectable /\ pc # "new") =>
        /\ pc = "failed"
        /\ firstRender = TRUE
        /\ last = NoKey
        /\ resolved = << >>
        /\ cursorPosition = -1
        /\ status # "done"

\* A failed construction on a list holding a Separator and a disabled Choice.
C3_Witness ==
    /\ pc = "failed"
    /\ \E i \in 1..Len(choices) : choices[i].type = "separator"
    /\ \E i \in 1..Len(choices) :
          choices[i].type = "choice" /\ choices[i].disabled = Str("reason")

\* C4: when choices holds a selectable entry, construction succeeds and the
\* state it leaves has status pending and the cursor on the smallest
\* selectable index.
C4_InitialCursorIsFirstSelectable ==
    (HasSelectable /\ pc # "new") =>
        /\ pc = "running"
        /\ last = NoKey =>
              /\ status = "pending"
              /\ EnabledChoiceAt(cursorPosition)
              /\ \A j \in 0..(cursorPosition - 1) : ~EnabledChoiceAt(j)

\* A fresh prompt whose first entries are not selectable and which has a
\* second selectable entry after the first.
C4_Witness ==
    /\ pc = "running"
    /\ last = NoKey
    /\ cursorPosition >= 1
    /\ \E j \in (cursorPosition + 1)..(Len(choices) - 1) : EnabledChoiceAt(j)

\* C5: a down (up) step handled while pending leaves the cursor on the
\* first selectable index met advancing by +1 (-1) modulo the list length
\* from the cursor it found.
C5_StepFindsNextSelectable ==
    (last.key \in {"up", "down"} /\ last.status = "pending") =>
        FirstSelectableFrom(last.cursorPosition,
                            IF last.key = "down" THEN 1 ELSE -1,
                            cursorPosition)

\* The list [A, Separator, B disabled, C] after down from A: the cursor is on C.
C5_Witness ==
    /\ Len(choices) = 4
    /\ EnabledChoiceAt(0)
    /\ choices[2].type = "separator"
    /\ choices[3].type = "choice" /\ choices[3].disabled = Bool(TRUE)
    /\ EnabledChoiceAt(3)
    /\ last.key = "down"
    /\ last.status = "pending"
    /\ last.cursorPosition = 0
    /\ cursorPosition = 3

\* C6: every directional search ends, within Len(choices) iterations, on a
\* selectable index.
C6_SearchTerminatesOnSelectable ==
    /\ pc # "hung"
    /\ last.key \in {"up", "down"} =>
          /\ last.iterations \in 1..Len(choices)
          /\ EnabledChoiceAt(cursorPosition)

\* An up step that went around a whole list of three or more entries, all
\* but one of them not selectable.
C6_Witness ==
    /\ last.key = "up"
    /\ Len(choices) >= 3
    /\ last.iterations = Len(choices)
    /\ cursorPosition = last.cursorPosition

\* C7: a digit key n handled while pending whose target n - 1 is selectable
\* sets the cursor to n - 1.
C7_NumberJumpsToTarget ==
    (/\ last.key = "number"
     /\ last.status = "pending"
     /\ EnabledChoiceAt(last.n - 1)) =>
        /\ cursorPosition = last.n - 1
        /\ Pending

\* A jump over a non-selectable entry to a target that is not the search's.
C7_Witness ==
    /\ last.key = "number"
    /\ last.status = "pending"
    /\ cursorPosition = last.n - 1
    /\ last.cursorPosition = cursorPosition + 2
    /\ EnabledChoiceAt(cursorPosition + 1)

\* C8: a digit key n handled while pending whose target n - 1 is out of
\* range, a Separator or a disabled Choice changes nothing.
C8_NumberOnNonSelectableIsNoOp ==
    (/\ last.key = "number"
     /\ last.status = "pending"
     /\ ~EnabledChoiceAt(last.n - 1)) =>
        /\ cursorPosition = last.cursorPosition
        /\ Pending
        /\ resolved = << >>

\* A digit aimed at a disabled Choice that has selectable entries on both
\* sides, the cursor resting on the later one.
C8_Witness ==
    /\ last.key = "number"
    /\ last.status = "pending"
    /\ last.n - 1 \in 1..(Len(choices) - 2)
    /\ choices[last.n].type = "choice"
    /\ choices[last.n].disabled \notin Falsy
    /\ EnabledChoiceAt(last.n - 2)
    /\ cursorPosition = last.n

\* C9: an up, down or digit key handled once status is done leaves
\* cursorPosition as it was.
C9_DoneCursorFrozen ==
    (last.status = "done" /\ last.key \in {"up", "down", "number"}) =>
        cursorPosition = last.cursorPosition

\* C10: the prompt resolves at most once: done() is called at most once.
C10_ResolvesAtMostOnce == Len(resolved) <= 1

(***************************************************************************)
(* Vocabulary of the properties of the frames.                             *)
(***************************************************************************)
KindsOf(f) == { f.tokens[i].kind : i \in 1..Len(f.tokens) }

IsLine(t) == t.kind \in {"separator", "disabled", "pointer", "plain"}

\* The lines of the list body of a frame, in order.
BodyOf(f) == SelectSeq(f.tokens, IsLine)

SelectableIndices == { i \in 0..(Len(choices) - 1) : EnabledChoiceAt(i) }

\* C11: the hint is in the first frame the prompt renders and in no later
\* frame, pending or done.
C11_HintOnlyInFirstFrame ==
    /\ pc = "running" => frame # NoFrame
    /\ frame.ordinal = "first" =>
          Cardinality({ i \in 1..Len(frame.tokens) : frame.tokens[i].kind = "hint" }) = 1
    /\ frame.ordinal = "later" => "hint" \notin KindsOf(frame)

\* A later frame of a prompt that is still pending.
C11_Witness ==
    /\ frame.ordinal = "later"
    /\ frame.status = "pending"
    /\ last.key = "down"

\* C12: a frame rendered while status is done is one line, the header and
\* the display label of the choice whose value the prompt resolved with, and
\* holds no list body.
C12_DoneFrameShowsConfirmedChoice ==
    frame.status = "done" =>
        /\ KindsOf(frame) = {"prefix", "message", "answer"}
        /\ Len(frame.tokens) = 3
        /\ \E i \in 1..Len(choices) :
              /\ choices[i].type = "choice"
              /\ choices[i].value = resolved[1]
              /\ frame.tokens[3].text =
                    (IF choices[i].name \in Falsy THEN choices[i].value
                     ELSE choices[i].name.s)

\* C13: a frame holds the cursor-hiding sequence iff it was rendered with
\* status pending; a pending frame ends with it.
C13_CursorHideIffPending ==
    /\ frame.status = "pending" =>
          /\ frame.tokens[Len(frame.tokens)].kind = "cursorHide"
          /\ Cardinality({ i \in 1..Len(frame.tokens) :
                              frame.tokens[i].kind = "cursorHide" }) = 1
    /\ frame.status = "done" => "cursorHide" \notin KindsOf(frame)
    /\ pc = "running" => frame.status = status

\* A later pending frame that shows the description of the choice at the
\* cursor before the cursor-hiding sequence.
C13_Witness ==
    /\ frame.status = "pending"
    /\ frame.ordinal = "later"
    /\ "description" \in KindsOf(frame)
    /\ frame.tokens[Len(frame.tokens)].kind = "cursorHide"

\* C14: with exactly one selectable entry, an up or down step searches
\* around the whole list and leaves the cursor where it was.
C14_SingleSelectableCursorFixed ==
    (Cardinality(SelectableIndices) = 1 /\ last.key \in {"up", "down"}) =>
        /\ pc = "running"
        /\ cursorPosition = last.cursorPosition
        /\ cursorPosition \in SelectableIndices
        /\ last.iterations = Len(choices)

\* A down step on a list of three or more entries whose only selectable
\* entry is neither the first nor the last.
C14_Witness ==
    /\ Cardinality(SelectableIndices) = 1
    /\ Len(choices) >= 3
    /\ last.key = "down"
    /\ cursorPosition \in 1..(Len(choices) - 2)

\* C15: the list body of a pending frame has one line per entry, the line
\* of the entry at cursorPosition is the only one with the pointer and the
\* highlight, and the line of a Separator or a disabled Choice has neither,
\* wherever the cursor is.
C15_ExactlyOnePointerAtCursor ==
    /\ frame.status = "pending" =>
          LET body == BodyOf(frame)
          IN  /\ Len(body) = Len(choices)
              /\ \A i \in 1..Len(body) :
                    /\ body[i].kind = "pointer" <=> i = cursorPosition + 1
                    /\ body[i].style = "cyan" <=> i = cursorPosition + 1
    /\ \A i \in 0..(Len(choices) - 1) :
          ~EnabledChoiceAt(i) =>
              \A c \in 0..(Len(choices) - 1) :
                  /\ choiceLine(choices[i + 1], i, c).kind # "pointer"
                  /\ choiceLine(choices[i + 1], i, c).style # "cyan"

\* A pending frame with the cursor past a Separator and a disabled Choice.
C15_Witness ==
    /\ frame.status = "pending"
    /\ cursorPosition >= 2
    /\ BodyOf(frame)[cursorPosition + 1].kind = "pointer"
    /\ \E i \in 1..cursorPosition : BodyOf(frame)[i].kind = "separator"
    /\ \E i \in 1..cursorPosition : BodyOf(frame)[i].kind = "disabled"

\* C16 as stated: the predicate accepts an entry iff it is defined, is not a
\* Separator, and its disabled field is absent or false.
C16_SelectableIffAbsentOrFalse ==
    last.key = "number" =>
        LET choice == At(choices, last.n - 1)
        IN  isSelectableChoice(choice) <=>
                /\ last.n - 1 \in 0..(Len(choices) - 1)
                /\ choice.type # "separator"
                /\ choice.disabled \in { Undefined, Bool(FALSE) }

\* C16: the predicate accepts an entry iff it is defined, is not a
\* Separator, and its disabled field is absent or falsy (false or the empty
\* string); true or a non-empty reason string makes it non-selectable.
C16_SelectableIffFalsy ==
    last.key = "number" =>
        LET choice == At(choices, last.n - 1)
        IN  isSelectableChoice(choice) <=>
                /\ last.n - 1 \in 0..(Len(choices) - 1)
                /\ choice.type # "separator"
                /\ choice.disabled \in { Undefined, Bool(FALSE), Str("") }

\* A digit key whose target carries a reason string: the predicate, applied
\* to it by the handler, rejected it.
C16_Witness ==
    /\ last.key = "number"
    /\ last.n \in 1..Len(choices)
    /\ choices[last.n].disabled = Str("reason")
    /\ ~isSelectableChoice(At(choices, last.n - 1))
    /\ cursorPosition = last.cursorPosition

\* C17: up, down and digit keys leave status as it was, Confirm leaves
\* cursorPosition as it was, and a status that was done stays done.
C17_StatusChangesOnlyByConfirm ==
    /\ last.key \in {"up", "down", "number"} => status = last.status
    /\ last.key = "enter" => cursorPosition = last.cursorPosition /\ status = "done"
    /\ last.status = "done" => status = "done"

\* A second Confirm, handled when status was done already.
C17_Witness ==
    /\ last.key = "enter"
    /\ last.status = "done"
    /\ status = "done"
    /\ Len(resolved) = 2

\* C18: after a down step taken while pending, the up search leads back to
\* the cursor the step left; after an up step, the down search does.
C18_StepsAreInverse ==
    /\ (last.key = "down" /\ last.status = "pending") =>
          search(choices, cursorPosition, -1).position = last.cursorPosition
    /\ (last.key = "up" /\ last.status = "pending") =>
          search(choices, cursorPosition, 1).position = last.cursorPosition

\* An up step that skipped an entry on a list with three selectable ones.
C18_Witness ==
    /\ last.key = "up"
    /\ last.status = "pending"
    /\ last.iterations > 1
    /\ Cardinality(SelectableIndices) >= 3

\* The cursor after j down steps from c.
RECURSIVE DownSteps(_, _)
DownSteps(c, j) ==
    IF j = 0 THEN c ELSE search(choices, DownSteps(c, j - 1), 1).position

\* C19: from the cursor of a pending prompt, k down steps (k the number of
\* selectable entries) visit every selectable entry, in increasing cyclic
\* order of index, and end on the cursor they started from, not before.
C19_DownStepsCycleThroughSelectable ==
    Pending =>
        LET c == cursorPosition
            k == Cardinality(SelectableIndices)
            L == Len(choices)
        IN  /\ DownSteps(c, k) = c
            /\ \A j \in 1..(k - 1) : DownSteps(c, j) # c
            /\ { DownSteps(c, j) : j \in 1..k } = SelectableIndices
            /\ \A j \in 1..(k - 2) :
                  (DownSteps(c, j) - c) % L < (DownSteps(c, j + 1) - c) % L

\* A down step between the entries at indices 9 and 10, which no digit key
\* addresses.
C19_Witness ==
    /\ Pending
    /\ last.key = "down"
    /\ last.cursorPosition = 9
    /\ cursorPosition = 10

====
